---- MODULE Spec2Model ----
\* Copy/paste (clipboard.rs) and undo/redo (circuit_panel.rs) of the logicrs
\* circuit editor, over one Plot of Blocks and Connections.
EXTENDS Integers, Sequences, FiniteSets, TLC

\* ------------------------------------------------------------------ bounds
\* the last identifier the allocator may hand out in one run
MaxId == 8
\* commands the user may issue in one run (undo and redo are not counted)
MaxEdits == 2
\* copy gestures the user may make in one run
MaxCopies == 1

\* ------------------------------------------------------- values and ports
\* Option<T>: None is the empty tuple, Some(x) the one-element tuple
None == <<>>
Some(x) == <<x>>
IsSome(o) == o # <<>>
Unwrap(o) == o[1]

\* input port slots of a block, output port slots of a block
InputPorts == {1, 2}
OutputPorts == {1}

\* positions offered to a new block, and paste targets
Positions == {<<3, 0>>}
Targets == {<<0, 0>>, <<3, 2>>}

\* Vector2 arithmetic and its derived (lexicographic) ordering
VAdd(a, b) == <<a[1] + b[1], a[2] + b[2]>>
VSub(a, b) == <<a[1] - b[1], a[2] - b[2]>>
VLeq(a, b) == a[1] < b[1] \/ (a[1] = b[1] /\ a[2] <= b[2])
VDefault == <<0, 0>>

\* Iterator::min over a sequence of positions, None when it is empty
RECURSIVE IterMin(_, _, _)
IterMin(ps, i, best) ==
  IF i > Len(ps) THEN best
  ELSE IF best = None \/ ~VLeq(Unwrap(best), ps[i])
       THEN IterMin(ps, i + 1, Some(ps[i]))
       ELSE IterMin(ps, i + 1, best)

\* ascending sequence of a finite set of integers
RECURSIVE SortedSeq(_)
SortedSeq(S) ==
  IF S = {} THEN <<>>
  ELSE LET m == CHOOSE x \in S : \A y \in S : x <= y
       IN <<m>> \o SortedSeq(S \ {m})

\* ------------------------------------------------------------ the entities
NewBlockSized(id, position, unique) ==
  [id |-> id, position |-> position, highlighted |-> FALSE, unique |-> unique,
   inputs |-> [i \in InputPorts |-> None], outputs |-> [i \in OutputPorts |-> None]]

Port(block, port) == [block |-> block, port |-> port]
Segment(block, port, position) == [block |-> block, port |-> port, position |-> position]
NewConnection(id, origin, branches) == [id |-> id, origin |-> origin, branches |-> branches]

SelNone == [kind |-> "None", items |-> <<>>]
SelSingle(item) == [kind |-> "Single", items |-> <<item>>]
SelMany(items) == [kind |-> "Many", items |-> items]
SelectableBlock(id) == [kind |-> "Block", id |-> id]
SelectableConnection(id) == [kind |-> "Connection", id |-> id]

ClipEmpty == [kind |-> "Empty", blocks |-> <<>>, connections |-> <<>>]
ClipBlocks(blocks, connections) == [kind |-> "Blocks", blocks |-> blocks, connections |-> connections]
ClipModule == [kind |-> "Module", blocks |-> <<>>, connections |-> <<>>]

\* the elements of a sequence, and a sequence mapped through an operator
Range(s) == {s[i] : i \in 1..Len(s)}
BlockIdsOf(blocks) == {blocks[i].id : i \in 1..Len(blocks)}

\* Connection::remove_unselected_branches: keep the branches landing on the
\* given blocks; the result has no branch exactly when the code returns true
remove_unselected_branches(connection, block_ids) ==
  LET keep(s) == s.block \in block_ids
  IN [connection EXCEPT !.branches = SelectSeq(connection.branches, keep)]

\* Connection::refactor_id: rename a block in the origin and in every branch
refactor_id(connection, old_id, new_id) ==
  LET rename(port) == IF port.block = old_id THEN [port EXCEPT !.block = new_id] ELSE port
  IN [connection EXCEPT
        !.origin = rename(connection.origin),
        !.branches = [i \in 1..Len(connection.branches) |-> rename(connection.branches[i])]]

\* --------------------------------------------------------------- the Plot
EmptyPlot == [blocks |-> <<>>, connections |-> <<>>, selection |-> SelNone]

MapPut(f, k, v) == [x \in DOMAIN f \cup {k} |-> IF x = k THEN v ELSE f[x]]
MapRemove(f, k) == [x \in DOMAIN f \ {k} |-> f[x]]

\* Plot::add_block
add_block(plot, block) == [plot EXCEPT !.blocks = MapPut(plot.blocks, block.id, block)]

\* the port slots a connection occupies, written with v in the blocks present
SetPorts(blocks, connection, v) ==
  [b \in DOMAIN blocks |->
     [blocks[b] EXCEPT
        !.outputs = [p \in DOMAIN blocks[b].outputs |->
                       IF connection.origin = Port(b, p) THEN v ELSE blocks[b].outputs[p]],
        !.inputs = [p \in DOMAIN blocks[b].inputs |->
                      IF \E i \in 1..Len(connection.branches) :
                           connection.branches[i].block = b /\ connection.branches[i].port = p
                      THEN v ELSE blocks[b].inputs[p]]]]

\* Plot::add_connection: store the connection and attach it to its ports
add_connection(plot, connection) ==
  [plot EXCEPT !.connections = MapPut(plot.connections, connection.id, connection),
               !.blocks = SetPorts(plot.blocks, connection, Some(connection.id))]

\* Plot::remove_connection: drop the connection and clear its ports
remove_connection(plot, id) ==
  IF id \notin DOMAIN plot.connections THEN plot
  ELSE [plot EXCEPT !.connections = MapRemove(plot.connections, id),
                    !.blocks = SetPorts(plot.blocks, plot.connections[id], None)]

\* connections with the block as origin or as a branch destination
Incident(plot, id) ==
  {c \in DOMAIN plot.connections :
     \/ plot.connections[c].origin.block = id
     \/ \E i \in 1..Len(plot.connections[c].branches) :
          plot.connections[c].branches[i].block = id}

RECURSIVE remove_connections(_, _)
remove_connections(plot, ids) ==
  IF ids = {} THEN plot
  ELSE LET c == CHOOSE x \in ids : TRUE
       IN remove_connections(remove_connection(plot, c), ids \ {c})

\* the first n connections of a sequence added in order, and likewise blocks
RECURSIVE add_first_connections(_, _, _)
add_first_connections(plot, connections, n) ==
  IF n = 0 THEN plot
  ELSE add_connection(add_first_connections(plot, connections, n - 1), connections[n])

add_connections(plot, connections) == add_first_connections(plot, connections, Len(connections))

RECURSIVE add_first_blocks(_, _, _)
add_first_blocks(plot, blocks, n) ==
  IF n = 0 THEN plot
  ELSE add_block(add_first_blocks(plot, blocks, n - 1), blocks[n])

add_blocks(plot, blocks) == add_first_blocks(plot, blocks, Len(blocks))

\* what is left of a connection when a block goes away: nothing when the
\* block was its origin or its only destination, else the other branches
Pruned(connection, id) ==
  LET keep(s) == s.block # id
  IN [connection EXCEPT !.branches =
        IF connection.origin.block = id THEN <<>>
        ELSE SelectSeq(connection.branches, keep)]

RECURSIVE readd_pruned(_, _, _, _)
readd_pruned(plot, olds, id, n) ==
  IF n = 0 THEN plot
  ELSE LET p == Pruned(olds[n], id)
           before == readd_pruned(plot, olds, id, n - 1)
       IN IF Len(p.branches) = 0 THEN before ELSE add_connection(before, p)

\* Plot::remove_block: the block goes, and every connection touching it is
\* pruned, or deleted when no valid endpoint pair is left
remove_block(plot, id) ==
  IF id \notin DOMAIN plot.blocks THEN plot
  ELSE LET olds == SortedSeq(Incident(plot, id))
           oldc == [i \in 1..Len(olds) |-> plot.connections[olds[i]]]
           cut == remove_connections(plot, Incident(plot, id))
           gone == [cut EXCEPT !.blocks = MapRemove(cut.blocks, id)]
       IN readd_pruned(gone, oldc, id, Len(oldc))

\* Plot::unhighlight: clear the highlight flag of every entity
unhighlight(plot) ==
  [plot EXCEPT !.blocks = [b \in DOMAIN plot.blocks |->
                             [plot.blocks[b] EXCEPT !.highlighted = FALSE]]]

\* Plot::set_selection
set_selection(plot, selection) == [plot EXCEPT !.selection = selection]

\* Plot::highlight: flag the blocks the selection names
highlight(plot) ==
  [plot EXCEPT !.blocks = [b \in DOMAIN plot.blocks |->
     [plot.blocks[b] EXCEPT !.highlighted =
        \E i \in 1..Len(plot.selection.items) :
          plot.selection.items[i] = SelectableBlock(b)]]]

\* ------------------------------------------------------ Identifier allocator
\* Id::new with the allocator at n: the identifier returned
IdNew(n) == n

\* ------------------------------------------------------------------ capture
\* mutant: only the output slots cleared
prepare_copying_block_outputs_only(block) ==
  [block EXCEPT !.outputs = [p \in DOMAIN block.outputs |-> None]]

\* Copyable<()> for Block: every port slot cleared
prepare_copying_block(block) ==
  [block EXCEPT !.outputs = [p \in DOMAIN block.outputs |-> None],
                !.inputs = [p \in DOMAIN block.inputs |-> None]]

\* plot.get_connection behind c.and_then: the connection a slot resolves to
SlotConnection(plot, c) ==
  IF IsSome(c) /\ Unwrap(c) \in DOMAIN plot.connections
  THEN Some(plot.connections[Unwrap(c)]) ELSE None

\* mutant: the outputs closure clears no port
copy_outputs_keep(plot, block_ids, block) == block

\* the outputs closure of prepare_copying for one block: a port whose pruned
\* connection has no branch left is cleared
copy_outputs(plot, block_ids, block) ==
  [block EXCEPT !.outputs = [p \in DOMAIN block.outputs |->
     LET found == SlotConnection(plot, block.outputs[p])
     IN IF IsSome(found)
           /\ remove_unselected_branches(Unwrap(found), block_ids).branches = <<>>
        THEN None ELSE block.outputs[p]]]

\* mutant: the outputs closure pushes every pruned connection, empty or not
pushed_connections_always(plot, block_ids, block) ==
  LET ports == SortedSeq(DOMAIN block.outputs)
      has(p) == IsSome(SlotConnection(plot, block.outputs[p]))
      found == SelectSeq(ports, has)
  IN [i \in 1..Len(found) |->
        remove_unselected_branches(
          Unwrap(SlotConnection(plot, block.outputs[found[i]])), block_ids)]

\* the connections the outputs closure pushes for one block, in port order
pushed_connections(plot, block_ids, block) ==
  LET ports == SortedSeq(DOMAIN block.outputs)
      pruned(p) == remove_unselected_branches(
                     Unwrap(SlotConnection(plot, block.outputs[p])), block_ids)
      kept(p) == IsSome(SlotConnection(plot, block.outputs[p]))
                 /\ pruned(p).branches # <<>>
      keptPorts == SelectSeq(ports, kept)
  IN [i \in 1..Len(keptPorts) |-> pruned(keptPorts[i])]

\* mutant: the inputs closure clears nothing
copy_inputs_keep(plot, block_ids, block) == block

\* the inputs closure of prepare_copying for one block
copy_inputs(plot, block_ids, block) ==
  [block EXCEPT !.inputs = [p \in DOMAIN block.inputs |->
     LET found == SlotConnection(plot, block.inputs[p])
     IN IF IsSome(found) /\ Unwrap(found).origin.block \notin block_ids
        THEN None ELSE block.inputs[p]]]

\* the connections pushed while the first n blocks are visited
RECURSIVE pushed_by_first(_, _, _, _)
pushed_by_first(plot, block_ids, blocks, n) ==
  IF n = 0 THEN <<>>
  ELSE pushed_by_first(plot, block_ids, blocks, n - 1)
       \o pushed_connections(plot, block_ids, blocks[n])

\* Copyable<(&Plot, Vec<BlockID>)> for (Vec<Block>, Vec<Connection>)
prepare_copying(plot, block_ids, blocks, connections) ==
  <<[i \in 1..Len(blocks) |->
       copy_inputs(plot, block_ids, copy_outputs(plot, block_ids, blocks[i]))],
    connections \o pushed_by_first(plot, block_ids, blocks, Len(blocks))>>

\* the Selection::Many arm: the selected blocks that exist and are not unique
EligibleBlocks(plot, items) ==
  LET ok(s) == s.kind = "Block" /\ s.id \in DOMAIN plot.blocks
               /\ ~plot.blocks[s.id].unique
      sel == SelectSeq(items, ok)
  IN [i \in 1..Len(sel) |-> plot.blocks[sel[i].id]]

\* impl From<&Plot> for Clipboard
ClipboardFrom(plot) ==
  LET sel == plot.selection
  IN IF sel.kind = "Single" /\ sel.items[1].kind = "Block"
     THEN IF sel.items[1].id \in DOMAIN plot.blocks
             /\ ~plot.blocks[sel.items[1].id].unique
          THEN ClipBlocks(<<prepare_copying_block(plot.blocks[sel.items[1].id])>>, <<>>)
          ELSE ClipEmpty
     ELSE IF sel.kind = "Many"
     THEN LET blocks == EligibleBlocks(plot, sel.items)
              data == prepare_copying(plot, BlockIdsOf(blocks), blocks, <<>>)
          IN ClipBlocks(data[1], data[2])
     ELSE ClipEmpty

\* -------------------------------------------------------------------- paste
\* mutant: the offset without the minimum subtracted
paste_offset_no_min(blocks, position) == position

\* the offset of prepare_pasting: position - min(block positions)
paste_offset(blocks, position) ==
  LET min == IterMin([i \in 1..Len(blocks) |-> blocks[i].position], 1, None)
  IN VSub(position, IF IsSome(min) THEN Unwrap(min) ELSE VDefault)

\* mutant: the first loop without the refactor_id of the connections
RECURSIVE paste_blocks_no_refactor(_, _, _, _, _)
paste_blocks_no_refactor(blocks, connections, offset, i, first) ==
  IF i > Len(blocks) THEN <<blocks, connections>>
  ELSE paste_blocks_no_refactor(
         [k \in 1..Len(blocks) |->
            IF k = i THEN [blocks[i] EXCEPT !.id = IdNew(first + i - 1),
                                            !.position = VAdd(blocks[i].position, offset),
                                            !.highlighted = TRUE]
            ELSE blocks[k]],
         connections, offset, i + 1, first)

\* the first loop of prepare_pasting from block i on: a fresh id, the offset
\* and the highlight for each block, its old id renamed in every connection
RECURSIVE paste_blocks(_, _, _, _, _)
paste_blocks(blocks, connections, offset, i, first) ==
  IF i > Len(blocks) THEN <<blocks, connections>>
  ELSE LET new_id == IdNew(first + i - 1)
           old_id == blocks[i].id
           block == [blocks[i] EXCEPT !.id = new_id,
                                      !.position = VAdd(blocks[i].position, offset),
                                      !.highlighted = TRUE]
       IN paste_blocks([k \in 1..Len(blocks) |-> IF k = i THEN block ELSE blocks[k]],
                       [j \in 1..Len(connections) |->
                          refactor_id(connections[j], old_id, new_id)],
                       offset, i + 1, first)

\* for_each_mut_segment: the offset added to every segment that has a position
shift_segments(connection, offset) ==
  [connection EXCEPT !.branches = [i \in 1..Len(connection.branches) |->
     IF IsSome(connection.branches[i].position)
     THEN [connection.branches[i] EXCEPT
             !.position = Some(VAdd(Unwrap(connection.branches[i].position), offset))]
     ELSE connection.branches[i]]]

\* connections_mut of one block with every slot equal to old_id set to new_id
rename_slots(block, old_id, new_id) ==
  [block EXCEPT
     !.inputs = [p \in DOMAIN block.inputs |->
                   IF block.inputs[p] = Some(old_id) THEN Some(new_id) ELSE block.inputs[p]],
     !.outputs = [p \in DOMAIN block.outputs |->
                    IF block.outputs[p] = Some(old_id) THEN Some(new_id) ELSE block.outputs[p]]]

\* mutant: the second loop without set_id, each connection keeping its id
RECURSIVE paste_connections_keep_id(_, _, _, _, _)
paste_connections_keep_id(blocks, connections, offset, j, first) ==
  IF j > Len(connections) THEN <<blocks, connections>>
  ELSE paste_connections_keep_id(
         blocks,
         [k \in 1..Len(connections) |->
            IF k = j THEN shift_segments(connections[j], offset) ELSE connections[k]],
         offset, j + 1, first)

\* the second loop of prepare_pasting from connection j on
RECURSIVE paste_connections(_, _, _, _, _)
paste_connections(blocks, connections, offset, j, first) ==
  IF j > Len(connections) THEN <<blocks, connections>>
  ELSE LET old_id == connections[j].id
           new_id == IdNew(first + j - 1)
           connection == shift_segments([connections[j] EXCEPT !.id = new_id], offset)
       IN paste_connections([i \in 1..Len(blocks) |->
                               rename_slots(blocks[i], old_id, new_id)],
                            [k \in 1..Len(connections) |->
                               IF k = j THEN connection ELSE connections[k]],
                            offset, j + 1, first)

\* Pasteable<Vector2<f64>>::prepare_pasting with the allocator at first
prepare_pasting(blocks, connections, position, first) ==
  LET offset == paste_offset(blocks, position)
      mid == paste_blocks(blocks, connections, offset, 1, first)
  IN paste_connections(mid[1], mid[2], offset, 1, first + Len(blocks))

\* ------------------------------------------------------------------ Actions
\* an Action (a reversible command); old holds the connections a removal cut
Cmd(type, blocks, connections, old) ==
  [type |-> type, blocks |-> blocks, connections |-> connections, old |-> old]

RECURSIVE remove_first_blocks(_, _, _)
remove_first_blocks(plot, blocks, n) ==
  IF n = 0 THEN plot
  ELSE remove_block(remove_first_blocks(plot, blocks, n - 1), blocks[n].id)

remove_blocks(plot, blocks) == remove_first_blocks(plot, blocks, Len(blocks))

\* Action::apply on the plot
ApplyCmd(plot, c) ==
  CASE c.type = "NewBlock" -> add_block(plot, c.blocks[1])
    [] c.type = "NewConnection" -> add_connection(plot, c.connections[1])
    [] c.type = "PasteBlocks" -> add_connections(add_blocks(plot, c.blocks), c.connections)
    [] c.type = "DeleteBlock" -> remove_block(plot, c.blocks[1].id)

\* Action::undo on the plot
UndoCmd(plot, c) ==
  CASE c.type = "NewBlock" -> remove_block(plot, c.blocks[1].id)
    [] c.type = "NewConnection" -> remove_connection(plot, c.connections[1].id)
    [] c.type = "PasteBlocks" ->
         remove_blocks(remove_connections(plot, {c.connections[i].id : i \in 1..Len(c.connections)}),
                       c.blocks)
    [] c.type = "DeleteBlock" ->
         add_connections(
           add_block(remove_connections(plot, {c.old[i].id : i \in 1..Len(c.old)}),
                     c.blocks[1]),
           c.old)

\* the editor's state as the handlers see it
Editor(p, u, r) == [plot |-> p, undo |-> u, redo |-> r]

\* Application::new_action: apply the command, push it, clear the redo stack
new_action(ed, c) == Editor(ApplyCmd(ed.plot, c), Append(ed.undo, c), <<>>)

\* Application::undo_action: invert the latest command and move it to redo
undo_action(ed) ==
  IF ed.undo = <<>> THEN ed
  ELSE LET c == ed.undo[Len(ed.undo)]
       IN Editor(UndoCmd(ed.plot, c), SubSeq(ed.undo, 1, Len(ed.undo) - 1), Append(ed.redo, c))

\* Application::redo_action: reapply the latest undone command
redo_action(ed) ==
  IF ed.redo = <<>> THEN ed
  ELSE LET c == ed.redo[Len(ed.redo)]
       IN Editor(ApplyCmd(ed.plot, c), Append(ed.undo, c), SubSeq(ed.redo, 1, Len(ed.redo) - 1))

\* mutant: the undo button wired to redo_action
undo_latest_redoes(ed) == redo_action(ed)

\* CircuitPanel::undo_latest and CircuitPanel::redo_latest
undo_latest(ed) == undo_action(ed)
redo_latest(ed) == redo_action(ed)

\* mutant: the Action built from the clipboard's own blocks and connections
paste_to_stale_payload(clip, plot, position, first) ==
  IF clip.kind = "Blocks"
  THEN LET data == prepare_pasting(clip.blocks, clip.connections, position, first)
           ids == [i \in 1..Len(data[1]) |-> SelectableBlock(data[1][i].id)]
       IN [result |-> "Ok", plot |-> set_selection(unhighlight(plot), SelMany(ids)),
           blocks |-> clip.blocks, connections |-> clip.connections]
  ELSE [result |-> "panic", plot |-> plot, blocks |-> <<>>, connections |-> <<>>]

\* mutant: every clipboard taken for a block payload
paste_to_any_variant(clip, plot, position, first) ==
  LET data == prepare_pasting(clip.blocks, clip.connections, position, first)
      ids == [i \in 1..Len(data[1]) |-> SelectableBlock(data[1][i].id)]
  IN [result |-> "Ok", plot |-> set_selection(unhighlight(plot), SelMany(ids)),
      blocks |-> data[1], connections |-> data[2]]

\* mutant: paste_to without plot.unhighlight()
paste_to_no_unhighlight(clip, plot, position, first) ==
  IF clip.kind = "Blocks"
  THEN LET data == prepare_pasting(clip.blocks, clip.connections, position, first)
           ids == [i \in 1..Len(data[1]) |-> SelectableBlock(data[1][i].id)]
       IN [result |-> "Ok", plot |-> set_selection(plot, SelMany(ids)),
           blocks |-> data[1], connections |-> data[2]]
  ELSE [result |-> "panic", plot |-> plot, blocks |-> <<>>, connections |-> <<>>]

\* Clipboard::paste_to with the allocator at first: the outcome, the plot as
\* paste_to leaves it, and the blocks and connections of Action::PasteBlocks
paste_to(clip, plot, position, first) ==
  IF clip.kind = "Blocks"
  THEN LET data == prepare_pasting(clip.blocks, clip.connections, position, first)
           ids == [i \in 1..Len(data[1]) |-> SelectableBlock(data[1][i].id)]
       IN [result |-> "Ok", plot |-> set_selection(unhighlight(plot), SelMany(ids)),
           blocks |-> data[1], connections |-> data[2]]
  ELSE [result |-> "panic", plot |-> plot, blocks |-> <<>>, connections |-> <<>>]

\* ------------------------------------------------------------- the machine
VARIABLES plot, clipboard, nextId, undo_stack, redo_stack, ret, edits, copies
vars == <<plot, clipboard, nextId, undo_stack, redo_stack, ret, edits, copies>>

\* what the last handler returned: its name, outcome and pasted entities
Ret(op, result, blocks, connections) ==
  [op |-> op, result |-> result, blocks |-> blocks, connections |-> connections]

\* plots a loaded project can hold: block 1 wired to blocks 2 and 3 by the
\* two-branch connection 4, either end possibly a module's unique IO block
LoadedPlots ==
  {add_connection(
     add_blocks(EmptyPlot,
       <<NewBlockSized(1, <<1, 0>>, 1 \in u), NewBlockSized(2, <<0, 1>>, FALSE),
         NewBlockSized(3, <<2, 2>>, 3 \in u)>>),
     NewConnection(4, Port(1, 1), <<Segment(2, 1, Some(<<1, 1>>)), Segment(3, 1, None)>>))
   : u \in {{}, {1}, {3}}}

Init ==
  /\ plot \in LoadedPlots
  /\ clipboard = ClipEmpty
  /\ nextId = 5
  /\ undo_stack = <<>>
  /\ redo_stack = <<>>
  /\ ret = Ret("edit", "Ok", <<>>, <<>>)
  /\ edits = 0
  /\ copies = 0

\* the editor after a handler pushed command c
Commit(c, op) ==
  LET ed == new_action(Editor(plot, undo_stack, redo_stack), c)
  IN /\ edits < MaxEdits
     /\ edits' = edits + 1
     /\ UNCHANGED copies
     /\ plot' = ed.plot
     /\ undo_stack' = ed.undo
     /\ redo_stack' = ed.redo
     /\ ret' = Ret("edit", "Ok", <<>>, <<>>)

\* the user places a new block
AddBlock ==
  \E position \in Positions :
    /\ nextId <= MaxId
    /\ nextId' = nextId + 1
    /\ Commit(Cmd("NewBlock", <<NewBlockSized(IdNew(nextId), position, FALSE)>>, <<>>, <<>>),
              "add_block")
    /\ UNCHANGED clipboard

\* second input ports of the plot no connection occupies
FreeInputs == {s \in (DOMAIN plot.blocks) \X {2} : plot.blocks[s[1]].inputs[s[2]] = None}

\* the user wires a free output port to a free second input port
AddConnection ==
  \E o \in DOMAIN plot.blocks, d \in FreeInputs :
    /\ plot.blocks[o].outputs[1] = None
    /\ nextId <= MaxId
    /\ nextId' = nextId + 1
    /\ Commit(Cmd("NewConnection", <<>>,
                  <<NewConnection(IdNew(nextId), Port(o, 1), <<Segment(d[1], d[2], None)>>)>>, <<>>),
              "add_connection")
    /\ UNCHANGED clipboard

\* the user deletes a block that is not a module's IO boundary block
DeleteBlock ==
  \E id \in DOMAIN plot.blocks :
    /\ ~plot.blocks[id].unique
    /\ Commit(Cmd("DeleteBlock", <<plot.blocks[id]>>, <<>>,
                  [i \in 1..Cardinality(Incident(plot, id)) |->
                     plot.connections[SortedSeq(Incident(plot, id))[i]]]),
              "delete_block")
    /\ UNCHANGED <<clipboard, nextId>>

\* the selections the user can make: nothing, one block, one connection, or
\* a rubber band over a run of blocks and the connections leaving them
Selections ==
  {SelNone}
  \cup {SelSingle(SelectableBlock(b)) : b \in DOMAIN plot.blocks}
  \cup {SelSingle(SelectableConnection(c)) : c \in DOMAIN plot.connections}
  \cup {LET S == {b \in DOMAIN plot.blocks : lo <= b /\ b <= lo + n}
            C == {c \in DOMAIN plot.connections : plot.connections[c].origin.block \in S}
        IN SelMany([i \in 1..Cardinality(S) |-> SelectableBlock(SortedSeq(S)[i])]
                   \o [i \in 1..Cardinality(C) |-> SelectableConnection(SortedSeq(C)[i])])
          : lo \in DOMAIN plot.blocks, n \in 0..MaxId}

\* a copy gesture: the user selects, then the clipboard is captured from the
\* plot; the capture takes the plot by shared reference
Copy ==
  \E selection \in Selections :
    /\ copies < MaxCopies
    /\ copies' = copies + 1
    /\ plot' = highlight(set_selection(unhighlight(plot), selection))
    /\ clipboard' = ClipboardFrom(plot')
    /\ ret' = Ret("copy", "Ok", <<>>, <<>>)
    /\ UNCHANGED <<nextId, undo_stack, redo_stack, edits>>

\* Clipboard::deserialize of system clipboard text that holds a module
Deserialize ==
  /\ clipboard' = ClipModule
  /\ ret' = Ret("deserialize", "Ok", <<>>, <<>>)
  /\ UNCHANGED <<plot, nextId, undo_stack, redo_stack, edits, copies>>

\* paste: paste_to, and on Ok the returned Action goes through new_action
Paste(position) ==
  LET r == paste_to(clipboard, plot, position, nextId)
      n == Len(r.blocks) + Len(r.connections)
      ed == new_action(Editor(r.plot, undo_stack, redo_stack),
                       Cmd("PasteBlocks", r.blocks, r.connections, <<>>))
  IN IF r.result = "Ok"
     THEN /\ nextId + n - 1 <= MaxId
          /\ edits < MaxEdits
          /\ edits' = edits + 1
          /\ UNCHANGED copies
          /\ nextId' = nextId + n
          /\ plot' = ed.plot
          /\ undo_stack' = ed.undo
          /\ redo_stack' = ed.redo
          /\ ret' = Ret("paste_to", "Ok", r.blocks, r.connections)
          /\ UNCHANGED clipboard
     ELSE /\ ret' = Ret("paste_to", "panic", <<>>, <<>>)
          /\ UNCHANGED <<plot, clipboard, nextId, undo_stack, redo_stack, edits, copies>>

PasteAny == \E position \in Targets : Paste(position)

Undo ==
  LET ed == undo_latest(Editor(plot, undo_stack, redo_stack))
  IN /\ undo_stack # <<>>
     /\ plot' = ed.plot
     /\ undo_stack' = ed.undo
     /\ redo_stack' = ed.redo
     /\ ret' = Ret("undo", "Ok", <<>>, <<>>)
     /\ UNCHANGED <<clipboard, nextId, edits, copies>>

Redo ==
  LET ed == redo_latest(Editor(plot, undo_stack, redo_stack))
  IN /\ redo_stack # <<>>
     /\ plot' = ed.plot
     /\ undo_stack' = ed.undo
     /\ redo_stack' = ed.redo
     /\ ret' = Ret("redo", "Ok", <<>>, <<>>)
     /\ UNCHANGED <<clipboard, nextId, edits, copies>>

\* ============================================================ Application
\* ApplicationTemplate: the simulator cell and the shared data behind its
\* mutex; the execution contexts spawned so far; the UI thread's position
\* in its handler; whether shutdown has saved the project
VARIABLES simulator, contexts, lock, data, main, saved
svars == <<simulator, contexts, lock, data, main, saved>>

\* bound on the execution contexts spawned
MaxContexts == 2

\* ApplicationData::default(): an empty plot; a and b are two parts of the
\* structure that every complete mutation leaves equal
DataDefault == [a |-> 0, b |-> 0, blocks |-> 0, out |-> 0]

\* the mutex of the data: free, or held by the UI thread or by a context
Free == [by |-> "none", context |-> 0]
ByMain == [by |-> "main", context |-> 0]
BySim(c) == [by |-> "simulator", context |-> c]

\* the UI thread in handler position pc, joining context target
Main(pc, target) == [pc |-> pc, target |-> target]

\* impl Default for ApplicationTemplate, before any event
AppInit ==
  /\ simulator = None
  /\ contexts = <<>>
  /\ lock = Free
  /\ data = DataDefault
  /\ main = Main("idle", 0)
  /\ saved = FALSE

\* ================================================================= Project
\* the module table, the main plot and the tick rate of the Project; the
\* document last written by write_to; the accumulator of the last
\* collect_dependencies call; the calls made so far; the call stack of a
\* collect_dependencies call in progress
VARIABLES modules, main_plot, tps, file, deps, calls, walk
pvars == <<modules, main_plot, tps, file, deps, calls, walk>>

\* the editor's variables the Project's handlers leave alone
evars == <<plot, clipboard, undo_stack, redo_stack, edits, copies>>

\* builtin::BUILTINS, INPUT_MODULE_NAME and OUTPUT_MODULE_NAME
INPUT_MODULE_NAME == "Input"
OUTPUT_MODULE_NAME == "Output"
BUILTINS == {"And", INPUT_MODULE_NAME, OUTPUT_MODULE_NAME}

\* Simulator::DEFAULT_TICKS_PER_SECOND
DEFAULT_TICKS_PER_SECOND == 10

\* a Module: name, builtin flag, optional plot, optional io_blocks
Module(name, builtin, plot_, io_blocks) ==
  [name |-> name, builtin |-> builtin, plot |-> plot_, io_blocks |-> io_blocks]

\* builtin.module(): a fixed-behaviour primitive without a plot
BuiltinModule(name) == Module(name, TRUE, None, None)

\* a block placed in a plot as the Project sees it: its id, the module it
\* instances and its unique flag
ModuleBlock(id, module_id, unique) == [id |-> id, module_id |-> module_id, unique |-> unique]

\* a plot as the Project sees it: its blocks, and whether update_all_blocks
\* has normalised it
ModulePlot(blocks) ==
  [blocks |-> [i \in {blocks[k].id : k \in 1..Len(blocks)} |->
                 (CHOOSE b \in Range(blocks) : b.id = i)],
   updated |-> FALSE]

\* Plot::update_all_blocks: the normalisation pass, idempotent
update_all_blocks(p) == [p EXCEPT !.updated = TRUE]

\* the struct Project
ProjectOf(ms, mp, t) == [modules |-> ms, main_plot |-> mp, tps |-> t]

\* Project::new
ProjectNew(names) ==
  ProjectOf([n \in names |-> BuiltinModule(n)], ModulePlot(<<>>), DEFAULT_TICKS_PER_SECOND)

\* impl Default for Project
ProjectDefault == ProjectNew(BUILTINS)

\* Project::add_existing_module
add_existing_module(project, module) ==
  [project EXCEPT !.modules = MapPut(project.modules, module.name, module)]

\* Project::remove_module
remove_module(project, module_name) ==
  [project EXCEPT !.modules = MapRemove(project.modules, module_name)]

\* Module::has_io_blocks
has_io_blocks(module) == IsSome(module.io_blocks)

\* mutant: the Input and Output blocks generated whether or not the module
\* has io_blocks already
add_module_always(project, module, first) ==
  IF IsSome(module.plot)
  THEN LET input_block == ModuleBlock(IdNew(first), INPUT_MODULE_NAME, TRUE)
           output_block == ModuleBlock(IdNew(first + 1), OUTPUT_MODULE_NAME, TRUE)
           stored == [module EXCEPT
                        !.io_blocks = Some(<<input_block.id, output_block.id>>),
                        !.plot = Some(add_block(add_block(Unwrap(module.plot), input_block),
                                                output_block))]
       IN [result |-> "Ok",
           project |-> [project EXCEPT !.modules = MapPut(project.modules, stored.name, stored)],
           next |-> first + 2]
  ELSE [result |-> "Ok",
        project |-> [project EXCEPT !.modules = MapPut(project.modules, module.name, module)],
        next |-> first]

\* Project::add_module with the allocator at first: the outcome, the project
\* and the allocator after it; the unwrap of a missing Input or Output module
\* panics before anything is stored
add_module(project, module, first) ==
  IF IsSome(module.plot) /\ ~has_io_blocks(module)
  THEN IF INPUT_MODULE_NAME \notin DOMAIN project.modules
       THEN [result |-> "panic", project |-> project, next |-> first]
       ELSE IF OUTPUT_MODULE_NAME \notin DOMAIN project.modules
       THEN [result |-> "panic", project |-> project, next |-> first + 1]
       ELSE LET input_block == ModuleBlock(IdNew(first), INPUT_MODULE_NAME, TRUE)
                output_block == ModuleBlock(IdNew(first + 1), OUTPUT_MODULE_NAME, TRUE)
                stored == [module EXCEPT
                             !.io_blocks = Some(<<input_block.id, output_block.id>>),
                             !.plot = Some(add_block(add_block(Unwrap(module.plot), input_block),
                                                     output_block))]
            IN [result |-> "Ok",
                project |-> [project EXCEPT !.modules = MapPut(project.modules, stored.name, stored)],
                next |-> first + 2]
  ELSE [result |-> "Ok",
        project |-> [project EXCEPT !.modules = MapPut(project.modules, module.name, module)],
        next |-> first]

\* mutant: every module of the table written
Serialize_unfiltered(project) ==
  [modules |-> project.modules, main_plot |-> project.main_plot, tps |-> project.tps]

\* impl Serialize for Project: the document; builtin modules are filtered out
Serialize(project) ==
  [modules |-> [n \in {k \in DOMAIN project.modules : ~project.modules[k].builtin} |->
                  project.modules[n]],
   main_plot |-> project.main_plot,
   tps |-> project.tps]

\* serde_json::from_reader into the derived Deserialize of Project
from_reader(document) ==
  ProjectOf(document.modules, document.main_plot, document.tps)

\* load_from: add_module of every builtin, in the order of names
RECURSIVE add_builtins(_, _, _)
add_builtins(project, names, first) ==
  IF names = {} THEN project
  ELSE LET n == CHOOSE x \in names : TRUE
       IN add_builtins(add_module(project, BuiltinModule(n), first).project, names \ {n}, first)

\* Project::iter_plots_mut().for_each(update_all_blocks)
update_plots(project) ==
  [project EXCEPT
     !.modules = [n \in DOMAIN project.modules |->
                    IF IsSome(project.modules[n].plot)
                    THEN [project.modules[n] EXCEPT
                            !.plot = Some(update_all_blocks(Unwrap(project.modules[n].plot)))]
                    ELSE project.modules[n]],
     !.main_plot = update_all_blocks(project.main_plot)]

\* Project::load_from on a document that parses
load_from(document, first) ==
  update_plots(add_builtins(from_reader(document), BUILTINS, first))

\* modules.contains_key on the accumulator, kept as the sequence of inserts
contains_key(acc, name) == \E k \in 1..Len(acc) : acc[k].name = name

\* mutant: the filter without the builtin test
dependency_filter_all(table, acc, module_id) ==
  /\ module_id \in DOMAIN table
  /\ ~contains_key(acc, table[module_id].name)

\* mutant: the filter without the test of the accumulator
dependency_filter_revisit(table, acc, module_id) ==
  /\ module_id \in DOMAIN table
  /\ ~table[module_id].builtin

\* the module a block of the walked plot leads to: in the table, not builtin,
\* not yet in the accumulator
dependency_filter(table, acc, module_id) ==
  /\ module_id \in DOMAIN table
  /\ ~table[module_id].builtin
  /\ ~contains_key(acc, table[module_id].name)

\* the module ids of a plot's blocks in iteration order
BlockModules(p) ==
  LET ids == SortedSeq(DOMAIN p.blocks)
  IN [i \in 1..Len(ids) |-> p.blocks[ids[i]].module_id]

\* Project::collect_dependencies: the accumulator after the walk from
\* mod_name; collect_blocks is the for_each over the blocks from the i-th on
RECURSIVE collect_dependencies(_, _, _)
RECURSIVE collect_blocks(_, _, _, _)
collect_blocks(table, ids, i, acc) ==
  IF i > Len(ids) THEN acc
  ELSE IF dependency_filter(table, acc, ids[i])
       THEN collect_blocks(table, ids, i + 1,
              collect_dependencies(table, table[ids[i]].name, Append(acc, table[ids[i]])))
       ELSE collect_blocks(table, ids, i + 1, acc)

collect_dependencies(table, mod_name, acc) ==
  IF mod_name \in DOMAIN table /\ IsSome(table[mod_name].plot)
  THEN collect_blocks(table, BlockModules(Unwrap(table[mod_name].plot)), 1, acc)
  ELSE acc

\* ---------------------------------------------------- the Project's machine
\* bound on the calls made on the Project
MaxCalls == 4

\* the modules the user composes: A instances B twice or itself, B instances
\* C and a builtin or A, C instances a module that is in no table; and a
\* user module under a builtin's name
Candidates ==
  {Module("A", FALSE, Some(ModulePlot(<<ModuleBlock(1, "B", FALSE), ModuleBlock(2, "B", FALSE)>>)), None),
   Module("A", FALSE, Some(ModulePlot(<<ModuleBlock(1, "A", FALSE)>>)), None),
   Module("B", FALSE, Some(ModulePlot(<<ModuleBlock(3, "C", FALSE), ModuleBlock(4, "And", FALSE)>>)), None),
   Module("B", FALSE, Some(ModulePlot(<<ModuleBlock(3, "A", FALSE)>>)), None),
   Module("C", FALSE, Some(ModulePlot(<<ModuleBlock(5, "D", FALSE)>>)), None),
   Module("And", FALSE, None, None)}

ModuleNames == {"A", "B", "C", "D"} \cup BUILTINS

\* the Project as the handlers see it
TheProject == ProjectOf(modules, main_plot, tps)

\* the Project after construction; the editor is idle
ProjectInit ==
  /\ modules = ProjectDefault.modules
  /\ main_plot = ProjectDefault.main_plot
  /\ tps = ProjectDefault.tps
  /\ file = None
  /\ deps = [start |-> "", acc |-> <<>>]
  /\ calls = 0
  /\ walk = <<>>

EditorIdle ==
  /\ plot = EmptyPlot
  /\ clipboard = ClipEmpty
  /\ nextId = 6
  /\ undo_stack = <<>>
  /\ redo_stack = <<>>
  /\ ret = Ret("new", "Ok", <<>>, <<>>)
  /\ edits = 0
  /\ copies = 0

\* a call on the Project that leaves project in place
Called(op, result, project) ==
  /\ calls < MaxCalls
  /\ calls' = calls + 1
  /\ modules' = project.modules
  /\ main_plot' = project.main_plot
  /\ tps' = project.tps
  /\ ret' = Ret(op, result, <<>>, <<>>)
  /\ UNCHANGED <<evars, svars, walk>>

AddExistingModule ==
  \E module \in Candidates :
    /\ Called("add_existing_module", "Ok", add_existing_module(TheProject, module))
    /\ UNCHANGED <<nextId, file, deps>>

\* add_module of a composed module or of a module taken from the table
AddModule ==
  \E module \in Candidates \cup {modules[n] : n \in DOMAIN modules} :
    LET r == add_module(TheProject, module, nextId)
    IN /\ r.next <= MaxId + 1
       /\ Called("add_module", r.result, r.project)
       /\ nextId' = r.next
       /\ UNCHANGED <<file, deps>>

RemoveModule ==
  \E module_name \in ModuleNames :
    /\ Called("remove_module", "Ok", remove_module(TheProject, module_name))
    /\ UNCHANGED <<nextId, file, deps>>

\* the user places a block in the main plot (main_plot_mut)
PlaceBlock ==
  /\ nextId <= MaxId
  /\ DOMAIN main_plot.blocks = {}
  /\ Called("main_plot_mut", "Ok",
            [TheProject EXCEPT !.main_plot = add_block(main_plot, ModuleBlock(IdNew(nextId), "A", FALSE))])
  /\ nextId' = nextId + 1
  /\ UNCHANGED <<file, deps>>

SetTps ==
  /\ tps = DEFAULT_TICKS_PER_SECOND
  /\ Called("set_tps", "Ok", [TheProject EXCEPT !.tps = 2 * DEFAULT_TICKS_PER_SECOND])
  /\ UNCHANGED <<nextId, file, deps>>

\* Project::write_to: the serialized project replaces the file's content
WriteTo ==
  /\ Called("write_to", "Ok", TheProject)
  /\ file' = Some(Serialize(TheProject))
  /\ UNCHANGED <<nextId, deps>>

\* Project::load_from of the file written before; the result replaces the
\* project
LoadFrom ==
  /\ IsSome(file)
  /\ Called("load_from", "Ok", load_from(Unwrap(file), nextId))
  /\ UNCHANGED <<nextId, file, deps>>

\* collect_dependencies from an empty accumulator
CollectDependencies ==
  \E mod_name \in ModuleNames :
    /\ Called("collect_dependencies", "Ok", TheProject)
    /\ deps' = [start |-> mod_name, acc |-> collect_dependencies(modules, mod_name, <<>>)]
    /\ UNCHANGED <<nextId, file>>

ProjectNext ==
  \/ AddExistingModule
  \/ AddModule
  \/ RemoveModule
  \/ PlaceBlock
  \/ SetTps
  \/ WriteTo
  \/ LoadFrom
  \/ CollectDependencies

\* ------------------------------------- collect_dependencies, step by step
\* the module tables the walk runs on: the candidates, and a C whose plot
\* instances a missing module and A, which closes a cycle through A, B and C
WalkCandidates ==
  Candidates \cup
    {Module("C", FALSE, Some(ModulePlot(<<ModuleBlock(5, "D", FALSE), ModuleBlock(6, "A", FALSE)>>)), None)}

\* the tables add_existing_module builds from the builtins: at most one
\* module under each name
Tables ==
  {[n \in BUILTINS \cup {m.name : m \in S} |->
      IF \E m \in S : m.name = n THEN CHOOSE m \in S : m.name = n ELSE BuiltinModule(n)] :
     S \in {T \in SUBSET WalkCandidates : \A m1, m2 \in T : m1.name = m2.name => m1 = m2}}

\* the frame of one invocation: the module walked and the blocks of its plot
\* the for_each has not reached yet
Frame(mod_name, todo) == [mod_name |-> mod_name, todo |-> todo]

\* entering collect_dependencies(mod_name): a frame over the plot's blocks,
\* or an immediate return when the name has no module or the module no plot
Enter(table, mod_name) ==
  IF mod_name \in DOMAIN table /\ IsSome(table[mod_name].plot)
  THEN <<Frame(mod_name, DOMAIN Unwrap(table[mod_name].plot).blocks)>>
  ELSE <<>>

\* the stack with its top frame replaced
WithTop(stack, frame) == [k \in 1..Len(stack) |-> IF k = Len(stack) THEN frame ELSE stack[k]]

\* the stack without its top frame
Popped(stack) == [k \in 1..(Len(stack) - 1) |-> stack[k]]

\* the accumulators a caller hands in: empty, or holding one module of the
\* table already
Given(table) == {<<>>} \cup {<<table[n]>> : n \in {k \in DOMAIN table : ~table[k].builtin}}

\* a Project holding one of the tables, nothing collected yet
WalkInit ==
  /\ modules \in Tables
  /\ main_plot = ProjectDefault.main_plot
  /\ tps = ProjectDefault.tps
  /\ file = None
  /\ deps = [start |-> "", acc |-> <<>>, given |-> <<>>]
  /\ calls = 0
  /\ walk = <<>>

\* what the walk leaves alone
WalkFrame == UNCHANGED <<vars, svars, modules, main_plot, tps, file>>

\* the caller invokes collect_dependencies(mod_name, given)
WalkCall ==
  \E mod_name \in ModuleNames, given \in Given(modules) :
    /\ calls = 0
    /\ calls' = 1
    /\ deps' = [start |-> mod_name, acc |-> given, given |-> given]
    /\ walk' = Enter(modules, mod_name)
    /\ WalkFrame

\* the for_each of the innermost invocation reaches a block, in any order
\* of the plot's block map: a module that passes the filter is inserted and
\* walked, any other block is passed over
WalkBlock ==
  /\ walk # <<>>
  /\ LET top == walk[Len(walk)]
         blocks == Unwrap(modules[top.mod_name].plot).blocks
     IN \E b \in top.todo :
          LET module_id == blocks[b].module_id
              rest == WithTop(walk, Frame(top.mod_name, top.todo \ {b}))
          IN IF dependency_filter(modules, deps.acc, module_id)
             THEN /\ deps' = [deps EXCEPT !.acc = Append(deps.acc, modules[module_id])]
                  /\ walk' = rest \o Enter(modules, modules[module_id].name)
             ELSE /\ deps' = deps
                  /\ walk' = rest
  /\ UNCHANGED calls
  /\ WalkFrame

\* the for_each of the innermost invocation is exhausted: it returns
WalkReturn ==
  /\ walk # <<>>
  /\ walk[Len(walk)].todo = {}
  /\ walk' = Popped(walk)
  /\ UNCHANGED <<deps, calls>>
  /\ WalkFrame

WalkNext ==
  \/ WalkCall
  \/ WalkBlock
  \/ WalkReturn

\* ------------------------------------------------------------ the Simulator
\* Simulator::new: a spawned execution context, about to test its running flag
SimulatorNew == [pc |-> "check", running |-> TRUE]

\* the contexts with context c replaced
WithContext(ctxs, c, ctx) == [k \in 1..Len(ctxs) |-> IF k = c THEN ctx ELSE ctxs[k]]

\* ApplicationTemplate::start_simulation: the cell is overwritten with a new
\* Simulator; the one it held is dropped as it is
start_simulation(cell, ctxs) ==
  [simulator |-> Some(Len(ctxs) + 1), contexts |-> Append(ctxs, SimulatorNew)]

\* Simulator::join, its request: the running flag is cleared
join_request(ctxs, c) ==
  WithContext(ctxs, c, [pc |-> ctxs[c].pc, running |-> FALSE])

\* Simulator::join, its wait: the context has ended
joined(ctxs, c) == ctxs[c].pc = "done"

\* mutant: the simulator taken from the cell and dropped without a join
stop_simulation_no_join(cell, ctxs) ==
  [simulator |-> None, contexts |-> ctxs, joining |-> None]

\* ApplicationTemplate::stop_simulation: the cell is emptied, and the
\* simulator it held, if any, is joined
stop_simulation(cell, ctxs) ==
  IF IsSome(cell)
  THEN [simulator |-> None, contexts |-> join_request(ctxs, Unwrap(cell)), joining |-> cell]
  ELSE [simulator |-> None, contexts |-> ctxs, joining |-> None]

\* one evaluation pass over the plot: the output of its block, if it has one
evaluate(d) == IF d.blocks > 0 THEN [d EXCEPT !.out = 1 - d.out] ELSE d

\* ----------------------------------------------- the execution contexts
\* the loop of a context: test the flag, take the lock, evaluate one tick
\* and release the lock, sleep
SimCheck(c) ==
  /\ c <= Len(contexts)
  /\ contexts[c].pc = "check"
  /\ contexts' = WithContext(contexts, c,
       [pc |-> IF contexts[c].running THEN "lock" ELSE "done", running |-> contexts[c].running])
  /\ UNCHANGED <<simulator, lock, data, main, saved>>

SimLock(c) ==
  /\ c <= Len(contexts)
  /\ contexts[c].pc = "lock"
  /\ lock = Free
  /\ lock' = BySim(c)
  /\ contexts' = WithContext(contexts, c, [pc |-> "tick", running |-> contexts[c].running])
  /\ UNCHANGED <<simulator, data, main, saved>>

SimTick(c) ==
  /\ c <= Len(contexts)
  /\ contexts[c].pc = "tick"
  /\ data' = evaluate(data)
  /\ lock' = IF lock = BySim(c) THEN Free ELSE lock
  /\ contexts' = WithContext(contexts, c, [pc |-> "sleep", running |-> contexts[c].running])
  /\ UNCHANGED <<simulator, main, saved>>

SimSleep(c) ==
  /\ c <= Len(contexts)
  /\ contexts[c].pc = "sleep"
  /\ contexts' = WithContext(contexts, c, [pc |-> "check", running |-> contexts[c].running])
  /\ UNCHANGED <<simulator, lock, data, main, saved>>

\* ------------------------------------------------------- the UI thread
\* ApplicationImpl::activate
Activate ==
  /\ main.pc = "idle"
  /\ Len(contexts) < MaxContexts
  /\ LET r == start_simulation(simulator, contexts)
     IN simulator' = r.simulator /\ contexts' = r.contexts
  /\ UNCHANGED <<lock, data, main, saved>>

\* mutant: open writes the data without taking the lock
OpenLock_unlocked ==
  /\ main.pc = "idle"
  /\ main' = Main("open_locked", 0)
  /\ UNCHANGED <<simulator, contexts, lock, data, saved>>

\* ApplicationImpl::open: self.data.lock()
OpenLock ==
  /\ main.pc = "idle"
  /\ lock = Free
  /\ lock' = ByMain
  /\ main' = Main("open_locked", 0)
  /\ UNCHANGED <<simulator, contexts, data, saved>>

\* *old_data = data.unwrap(): the loaded data, one block in its plot, is
\* written part by part
OpenWrite ==
  /\ main.pc = "open_locked"
  /\ data' = [data EXCEPT !.a = 1, !.blocks = 1]
  /\ main' = Main("open_written", 0)
  /\ UNCHANGED <<simulator, contexts, lock, saved>>

\* the rest is written and drop(old_data) releases the lock
OpenDrop ==
  /\ main.pc = "open_written"
  /\ data' = [data EXCEPT !.b = 1]
  /\ lock' = IF lock = ByMain THEN Free ELSE lock
  /\ main' = Main("idle", 0)
  /\ UNCHANGED <<simulator, contexts, saved>>

\* paste_to: plot_provider.with_mut takes the lock
EditLock ==
  /\ main.pc = "idle"
  /\ lock = Free
  /\ lock' = ByMain
  /\ main' = Main("edit_locked", 0)
  /\ UNCHANGED <<simulator, contexts, data, saved>>

\* plot.unhighlight()
EditUnhighlight ==
  /\ main.pc = "edit_locked"
  /\ data' = [data EXCEPT !.a = 1 - data.a]
  /\ main' = Main("edit_unhighlighted", 0)
  /\ UNCHANGED <<simulator, contexts, lock, saved>>

\* plot.set_selection(..) and the end of with_mut
EditSetSelection ==
  /\ main.pc = "edit_unhighlighted"
  /\ data' = [data EXCEPT !.b = data.a]
  /\ lock' = Free
  /\ main' = Main("idle", 0)
  /\ UNCHANGED <<simulator, contexts, saved>>

\* mutant: shutdown takes the data lock before it stops the simulator
ShutdownStop_locked ==
  /\ main.pc = "idle"
  /\ lock = Free
  /\ lock' = ByMain
  /\ LET r == stop_simulation(simulator, contexts)
     IN /\ simulator' = r.simulator
        /\ contexts' = r.contexts
        /\ main' = IF IsSome(r.joining) THEN Main("joining", Unwrap(r.joining))
                   ELSE Main("stopped", 0)
  /\ UNCHANGED <<data, saved>>

\* ApplicationImpl::shutdown: self.stop_simulation(), up to its join
ShutdownStop ==
  /\ main.pc = "idle"
  /\ LET r == stop_simulation(simulator, contexts)
     IN /\ simulator' = r.simulator
        /\ contexts' = r.contexts
        /\ main' = IF IsSome(r.joining) THEN Main("joining", Unwrap(r.joining))
                   ELSE Main("stopped", 0)
  /\ UNCHANGED <<lock, data, saved>>

\* simulator.join() returns
JoinReturn ==
  /\ main.pc = "joining"
  /\ joined(contexts, main.target)
  /\ main' = Main("stopped", main.target)
  /\ UNCHANGED <<simulator, contexts, lock, data, saved>>

\* ApplicationTemplate::save: self.data.lock()
SaveLock ==
  /\ main.pc = "stopped"
  /\ lock = Free
  /\ lock' = ByMain
  /\ main' = Main("saving", main.target)
  /\ UNCHANGED <<simulator, contexts, data, saved>>

\* data.save() and the end of save
SaveDone ==
  /\ main.pc = "saving"
  /\ saved' = TRUE
  /\ lock' = Free
  /\ main' = Main("exited", main.target)
  /\ UNCHANGED <<simulator, contexts, data>>

Contexts == 1..MaxContexts

AppNext ==
  \/ \E c \in Contexts : SimCheck(c) /\ UNCHANGED <<vars, pvars>>
  \/ \E c \in Contexts : SimLock(c) /\ UNCHANGED <<vars, pvars>>
  \/ \E c \in Contexts : SimTick(c) /\ UNCHANGED <<vars, pvars>>
  \/ \E c \in Contexts : SimSleep(c) /\ UNCHANGED <<vars, pvars>>
  \/ Activate /\ UNCHANGED <<vars, pvars>>
  \/ OpenLock /\ UNCHANGED <<vars, pvars>>
  \/ OpenWrite /\ UNCHANGED <<vars, pvars>>
  \/ OpenDrop /\ UNCHANGED <<vars, pvars>>
  \/ EditLock /\ UNCHANGED <<vars, pvars>>
  \/ EditUnhighlight /\ UNCHANGED <<vars, pvars>>
  \/ EditSetSelection /\ UNCHANGED <<vars, pvars>>
  \/ ShutdownStop /\ UNCHANGED <<vars, pvars>>
  \/ JoinReturn /\ UNCHANGED <<vars, pvars>>
  \/ SaveLock /\ UNCHANGED <<vars, pvars>>
  \/ SaveDone /\ UNCHANGED <<vars, pvars>>

allvars == <<vars, pvars, svars>>

\* the Project in use, the editor idle and the application not activated
ProjectStart == ProjectInit /\ EditorIdle /\ AppInit

ProjectSpec == ProjectStart /\ [][ProjectNext]_allvars

\* the application's events, the editor idle and the Project as constructed
AppStart == AppInit /\ EditorIdle /\ ProjectInit

AppSpec == AppStart /\ [][AppNext]_allvars

\* the scheduler runs every context that can step; a context waiting for the
\* lock gets it, as every holder releases it within one tick or one handler
\* and a context sleeps between ticks; the UI thread returns from a join
\* that can return
AppFairness ==
  /\ \A c \in Contexts :
       /\ WF_allvars(SimCheck(c) /\ UNCHANGED <<vars, pvars>>)
       /\ SF_allvars(SimLock(c) /\ UNCHANGED <<vars, pvars>>)
       /\ WF_allvars(SimTick(c) /\ UNCHANGED <<vars, pvars>>)
       /\ WF_allvars(SimSleep(c) /\ UNCHANGED <<vars, pvars>>)
  /\ WF_allvars(JoinReturn /\ UNCHANGED <<vars, pvars>>)

AppFairSpec == AppStart /\ [][AppNext]_allvars /\ AppFairness

\* a Project holding a table, the editor idle, the application not activated
WalkStart == WalkInit /\ EditorIdle /\ AppInit

WalkSpec == WalkStart /\ [][WalkNext]_allvars

\* a call that can take a step takes it: the thread that called
\* collect_dependencies keeps running
WalkFairSpec == WalkStart /\ [][WalkNext]_allvars /\ WF_allvars(WalkBlock) /\ WF_allvars(WalkReturn)

\* the editor in use, the Project as constructed, the application not activated
Start == Init /\ ProjectInit /\ AppInit

Next ==
  \/ AddBlock /\ UNCHANGED <<pvars, svars>>
  \/ AddConnection /\ UNCHANGED <<pvars, svars>>
  \/ DeleteBlock /\ UNCHANGED <<pvars, svars>>
  \/ Copy /\ UNCHANGED <<pvars, svars>>
  \/ Deserialize /\ UNCHANGED <<pvars, svars>>
  \/ PasteAny /\ UNCHANGED <<pvars, svars>>
  \/ Undo /\ UNCHANGED <<pvars, svars>>
  \/ Redo /\ UNCHANGED <<pvars, svars>>

Spec == Start /\ [][Next]_allvars

\* ================================================================= claims
\* identifiers of a payload of blocks and connections
PayloadIds(blocks, connections) ==
  BlockIdsOf(blocks) \cup {connections[i].id : i \in 1..Len(connections)}
ConnectionIdsOf(connections) == {connections[i].id : i \in 1..Len(connections)}

\* the last handler was a paste_to that returned an Action
Pasted == ret.op = "paste_to" /\ ret.result = "Ok"

\* a step of the paste handler on a block payload
PasteStep(position) == Paste(position) /\ clipboard.kind = "Blocks"

\* C1: the N+M identifiers a paste assigns are pairwise distinct and disjoint
\* from every block or connection identifier of the plot and of the clipboard
\* payload as they were before the paste.
C1_IdentifierFreshness ==
  [][\A position \in Targets :
       PasteStep(position) =>
         LET new == PayloadIds(ret'.blocks, ret'.connections)
         IN /\ Len(ret'.blocks) = Len(clipboard.blocks)
            /\ Len(ret'.connections) = Len(clipboard.connections)
            /\ Cardinality(new) = Len(clipboard.blocks) + Len(clipboard.connections)
            /\ new \cap (DOMAIN plot.blocks \cup DOMAIN plot.connections) = {}
            /\ new \cap PayloadIds(clipboard.blocks, clipboard.connections) = {}]_vars

C1_Witness == Pasted /\ Len(ret.blocks) >= 2 /\ Len(ret.connections) >= 1

\* references of a payload: blocks its connections name, connections its
\* blocks' port slots name
EndpointRefs(connections) ==
  {connections[i].origin.block : i \in 1..Len(connections)}
  \cup UNION {{connections[i].branches[k].block : k \in 1..Len(connections[i].branches)}
                : i \in 1..Len(connections)}
SlotRefs(blocks) ==
  UNION {{Unwrap(blocks[i].inputs[p]) : p \in {q \in DOMAIN blocks[i].inputs : IsSome(blocks[i].inputs[q])}}
         \cup {Unwrap(blocks[i].outputs[p]) : p \in {q \in DOMAIN blocks[i].outputs : IsSome(blocks[i].outputs[q])}}
           : i \in 1..Len(blocks)}

\* C2: after prepare_pasting on a captured payload the pasted entities refer
\* only to each other: every connection endpoint is the new id of a pasted
\* block, every non-null port slot the new id of a pasted connection, none a
\* pre-paste id; and when the first loop is done (blocks renamed) every
\* endpoint is already new while every port slot still holds a payload id.
C2_SelfConsistentPaste ==
  Pasted =>
    LET first == nextId - Len(ret.blocks) - Len(ret.connections)
        mid == paste_blocks(clipboard.blocks, clipboard.connections,
                            VDefault, 1, first)
        old == PayloadIds(clipboard.blocks, clipboard.connections)
    IN /\ EndpointRefs(ret.connections) \subseteq BlockIdsOf(ret.blocks)
       /\ SlotRefs(ret.blocks) \subseteq ConnectionIdsOf(ret.connections)
       /\ (EndpointRefs(ret.connections) \cup SlotRefs(ret.blocks)) \cap old = {}
       /\ EndpointRefs(mid[2]) \subseteq BlockIdsOf(ret.blocks)
       /\ SlotRefs(mid[1]) \subseteq ConnectionIdsOf(clipboard.connections)

C2_Witness ==
  /\ Pasted
  /\ Len(ret.connections) >= 1
  /\ \E i \in 1..Len(ret.blocks) : IsSome(ret.blocks[i].inputs[1])
  /\ \E i \in 1..Len(ret.blocks) : IsSome(ret.blocks[i].outputs[1])

\* C3: in every reachable plot every non-null port slot of every block names
\* a connection of the plot, and every connection's origin and every branch
\* destination names a block of the plot.
C3_ReferenceIntegrity ==
  /\ \A b \in DOMAIN plot.blocks :
       /\ \A p \in DOMAIN plot.blocks[b].inputs :
            IsSome(plot.blocks[b].inputs[p]) =>
              Unwrap(plot.blocks[b].inputs[p]) \in DOMAIN plot.connections
       /\ \A p \in DOMAIN plot.blocks[b].outputs :
            IsSome(plot.blocks[b].outputs[p]) =>
              Unwrap(plot.blocks[b].outputs[p]) \in DOMAIN plot.connections
  /\ \A c \in DOMAIN plot.connections :
       /\ plot.connections[c].origin.block \in DOMAIN plot.blocks
       /\ \A k \in 1..Len(plot.connections[c].branches) :
            plot.connections[c].branches[k].block \in DOMAIN plot.blocks

\* a paste of blocks whose source connection is gone from the plot
C3_Witness ==
  /\ Pasted
  /\ Len(ret.blocks) >= 2
  /\ Len(undo_stack) = 2
  /\ undo_stack[1].type = "DeleteBlock"
  /\ clipboard.connections = <<>>
  /\ DOMAIN plot.connections = {}

\* the last handler was a copy gesture: the clipboard was captured from the
\* plot as it stands
Copied == ret.op = "copy"

\* ids of the selected blocks, and of those that exist and are not unique
SelectedBlocks ==
  {plot.selection.items[i].id :
     i \in {k \in 1..Len(plot.selection.items) : plot.selection.items[k].kind = "Block"}}
EligibleSelected ==
  {b \in SelectedBlocks \cap DOMAIN plot.blocks : ~plot.blocks[b].unique}

\* C4: a capture whose selection holds no eligible (existing, non-unique)
\* block yields Clipboard::Empty, for a single and for a multi selection
\* alike, and no captured clipboard holds a unique block.
C4_NoEligibleYieldsEmpty ==
  Copied =>
    /\ EligibleSelected = {} => clipboard = ClipEmpty
    /\ \A i \in 1..Len(clipboard.blocks) : ~clipboard.blocks[i].unique

\* C5: a paste of a non-empty payload at a target moves every copied block by
\* the one offset target - min(position over the copied blocks), the block at
\* the minimum landing on the target, and moves every routing waypoint by
\* that same offset.
C5_PasteOffset ==
  [][\A position \in Targets :
       (PasteStep(position) /\ Len(clipboard.blocks) > 0) =>
         \E m \in {clipboard.blocks[i].position : i \in 1..Len(clipboard.blocks)} :
           /\ \A i \in 1..Len(clipboard.blocks) : VLeq(m, clipboard.blocks[i].position)
           /\ \A i \in 1..Len(clipboard.blocks) :
                ret'.blocks[i].position
                  = VAdd(clipboard.blocks[i].position, VSub(position, m))
           /\ \E i \in 1..Len(clipboard.blocks) :
                clipboard.blocks[i].position = m /\ ret'.blocks[i].position = position
           /\ \A j \in 1..Len(clipboard.connections) :
                \A k \in 1..Len(clipboard.connections[j].branches) :
                  LET was == clipboard.connections[j].branches[k].position
                      now == ret'.connections[j].branches[k].position
                  IN IF IsSome(was)
                     THEN now = Some(VAdd(Unwrap(was), VSub(position, m)))
                     ELSE now = None]_vars

\* two blocks pasted, the minimum not the first of them, with a waypoint
C5_Witness ==
  /\ Pasted
  /\ Len(ret.blocks) >= 2
  /\ ~VLeq(clipboard.blocks[1].position, clipboard.blocks[2].position)
  /\ \E j \in 1..Len(ret.connections) :
       \E k \in 1..Len(ret.connections[j].branches) :
         IsSome(ret.connections[j].branches[k].position)

\* the branches of a plot connection that land on the given blocks, in order
LandingOn(c, ids) ==
  LET lands(s) == s.block \in ids
  IN SelectSeq(plot.connections[c].branches, lands)

\* C6: a multi-selection capture holds every selected non-unique block once;
\* an output port keeps its connection, captured with exactly the branches
\* landing on copied blocks, unless none lands there, and then the port is
\* cleared and the connection left out; an input port is cleared unless its
\* connection's origin block is among the copied blocks.
C6_MultiSelectionCapture ==
  (Copied /\ plot.selection.kind = "Many") =>
    /\ clipboard.kind = "Blocks"
    /\ BlockIdsOf(clipboard.blocks) = EligibleSelected
    /\ Len(clipboard.blocks) = Cardinality(EligibleSelected)
    /\ \A i \in 1..Len(clipboard.blocks) :
         LET cb == clipboard.blocks[i]
             sb == plot.blocks[cb.id]
         IN /\ \A p \in DOMAIN sb.outputs :
                 IF IsSome(sb.outputs[p])
                    /\ Len(LandingOn(Unwrap(sb.outputs[p]), EligibleSelected)) > 0
                 THEN /\ cb.outputs[p] = sb.outputs[p]
                      /\ \E j \in 1..Len(clipboard.connections) :
                           clipboard.connections[j]
                             = [id |-> Unwrap(sb.outputs[p]),
                                origin |-> Port(cb.id, p),
                                branches |-> LandingOn(Unwrap(sb.outputs[p]), EligibleSelected)]
                 ELSE /\ cb.outputs[p] = None
                      /\ IsSome(sb.outputs[p]) =>
                           Unwrap(sb.outputs[p]) \notin ConnectionIdsOf(clipboard.connections)
            /\ \A p \in DOMAIN sb.inputs :
                 cb.inputs[p] =
                   IF IsSome(sb.inputs[p])
                      /\ plot.connections[Unwrap(sb.inputs[p])].origin.block \in EligibleSelected
                   THEN sb.inputs[p] ELSE None

\* a connection captured with one of its two branches pruned away
C6_Witness ==
  /\ Copied
  /\ plot.selection.kind = "Many"
  /\ \E j \in 1..Len(clipboard.connections) :
       /\ Len(clipboard.connections[j].branches) = 1
       /\ Len(plot.connections[clipboard.connections[j].id].branches) = 2

\* the block a single selection names
SingleBlock == plot.selection.items[1].id
SingleEligible ==
  /\ plot.selection.kind = "Single"
  /\ plot.selection.items[1].kind = "Block"
  /\ SingleBlock \in DOMAIN plot.blocks
  /\ ~plot.blocks[SingleBlock].unique

\* C7: a capture of a single existing non-unique block holds exactly that
\* block with every port cleared and no connection, and the capture leaves the
\* plot's connections and its blocks' ports as they were.
C7_SingleSelectionCapture ==
  [][(ret'.op = "copy" /\ copies' = copies + 1) =>
       /\ plot'.connections = plot.connections
       /\ DOMAIN plot'.blocks = DOMAIN plot.blocks
       /\ \A b \in DOMAIN plot.blocks :
            plot'.blocks[b] = [plot.blocks[b] EXCEPT !.highlighted = plot'.blocks[b].highlighted]
       /\ SingleEligible' =>
            clipboard' = ClipBlocks(
              <<[plot'.blocks[SingleBlock'] EXCEPT
                   !.inputs = [p \in InputPorts |-> None],
                   !.outputs = [p \in OutputPorts |-> None]]>>, <<>>)]_vars

\* a single block copied while connected on an input port
C7_Witness ==
  /\ Copied
  /\ SingleEligible
  /\ IsSome(plot.blocks[SingleBlock].inputs[1])
  /\ clipboard.kind = "Blocks"

\* C8: paste_to on an Empty or Module clipboard panics: no Action comes
\* back, and the plot (blocks, connections, highlights, selection) and the
\* undo and redo stacks stay as they were.
C8_PasteContractViolation ==
  [][\A position \in Targets :
       (Paste(position) /\ clipboard.kind \in {"Empty", "Module"}) =>
         /\ ret'.result = "panic"
         /\ ret'.blocks = <<>> /\ ret'.connections = <<>>
         /\ plot' = plot
         /\ undo_stack' = undo_stack
         /\ redo_stack' = redo_stack]_vars

\* a panic on a Module clipboard while blocks are highlighted and selected
C8_Witness ==
  /\ ret.op = "paste_to"
  /\ ret.result = "panic"
  /\ clipboard.kind = "Module"
  /\ plot.selection.kind = "Many"
  /\ \E b \in DOMAIN plot.blocks : plot.blocks[b].highlighted

\* C9: after a successful paste every pasted block is highlighted and in the
\* plot, no other block of the plot is highlighted, and the selection is the
\* multi-selection of exactly the pasted blocks' fresh ids.
C9_PastedIsSelection ==
  Pasted =>
    /\ \A i \in 1..Len(ret.blocks) :
         /\ ret.blocks[i].highlighted
         /\ ret.blocks[i].id \in DOMAIN plot.blocks
         /\ plot.blocks[ret.blocks[i].id] = ret.blocks[i]
    /\ \A b \in DOMAIN plot.blocks :
         plot.blocks[b].highlighted <=> b \in BlockIdsOf(ret.blocks)
    /\ plot.selection = SelMany([i \in 1..Len(ret.blocks) |-> SelectableBlock(ret.blocks[i].id)])

\* a paste next to the blocks the copy gesture had highlighted
C9_Witness ==
  /\ Pasted
  /\ Len(ret.blocks) >= 2
  /\ copies = 1
  /\ BlockIdsOf(clipboard.blocks) \subseteq DOMAIN plot.blocks

\* the entities of a plot
Entities(p) == <<p.blocks, p.connections>>

\* C10: when a command is applied, undo gives back the plot the command
\* was applied to (entities, fields, identifiers) and a following redo the
\* plot the command left; and the redo stack is empty after the command.
C10_UndoRedoInverse ==
  [][edits' = edits + 1 =>
       LET applied == Editor(plot', undo_stack', redo_stack')
           undone == undo_latest(applied)
           redone == redo_latest(undone)
           before == IF ret'.op = "paste_to" THEN unhighlight(plot) ELSE plot
       IN /\ Entities(undone.plot) = Entities(before)
          /\ undone.undo = undo_stack
          /\ redone = applied
          /\ redo_stack' = <<>>]_vars

\* a second command applied after the first was undone: the redo stack that
\* held the first is empty
C10_Witness ==
  /\ edits = 2
  /\ ret.op \in {"edit", "paste_to"}
  /\ Len(undo_stack) = 1
  /\ redo_stack = <<>>

\* identifiers of the entities of a plot
PlotIds(p) == DOMAIN p.blocks \cup DOMAIN p.connections

\* C11: a paste is one command: the Action pushed by the paste holds the
\* pasted blocks and connections under the identifiers assigned at paste
\* time, none of them an identifier of the plot or of the clipboard, and
\* undoing it removes exactly those entities and leaves every entity the plot
\* had before the paste.
C11_PasteIsOneCommand ==
  [][\A position \in Targets :
       PasteStep(position) =>
         LET c == undo_stack'[Len(undo_stack')]
             introduced == PayloadIds(c.blocks, c.connections)
             undone == undo_latest(Editor(plot', undo_stack', redo_stack'))
         IN /\ Len(undo_stack') = Len(undo_stack) + 1
            /\ c.type = "PasteBlocks"
            /\ Cardinality(introduced) = Len(clipboard.blocks) + Len(clipboard.connections)
            /\ introduced \cap (PlotIds(plot) \cup PayloadIds(clipboard.blocks, clipboard.connections)) = {}
            /\ PlotIds(plot') = PlotIds(plot) \cup introduced
            /\ PlotIds(plot') \ PlotIds(undone.plot) = introduced
            /\ Entities(undone.plot) = Entities(unhighlight(plot))
            /\ undone.undo = undo_stack]_vars

\* a paste of blocks and a connection into a plot that still holds the
\* blocks they were copied from
C11_Witness ==
  /\ Pasted
  /\ Len(ret.blocks) >= 2
  /\ Len(ret.connections) >= 1
  /\ BlockIdsOf(clipboard.blocks) \subseteq DOMAIN plot.blocks
  /\ undo_stack[Len(undo_stack)].blocks = ret.blocks

\* every port slot of a sequence of blocks
SlotsOf(blocks) ==
  UNION {Range(blocks[i].inputs) \cup Range(blocks[i].outputs) : i \in 1..Len(blocks)}

\* C20: a clipboard captured from a plot with reference integrity is closed
\* under references: every non-null slot of a captured block names a captured
\* connection, every origin and branch destination of a captured connection
\* is a captured block, no captured connection has zero branches, and no
\* connection is captured twice.
C20_CapturedClosed ==
  (Copied /\ C3_ReferenceIntegrity) =>
    /\ \A slot \in SlotsOf(clipboard.blocks) :
         IsSome(slot) => Unwrap(slot) \in ConnectionIdsOf(clipboard.connections)
    /\ \A j \in 1..Len(clipboard.connections) :
         LET c == clipboard.connections[j]
         IN /\ c.origin.block \in BlockIdsOf(clipboard.blocks)
            /\ \A k \in 1..Len(c.branches) :
                 c.branches[k].block \in BlockIdsOf(clipboard.blocks)
            /\ Len(c.branches) > 0
    /\ Cardinality(ConnectionIdsOf(clipboard.connections)) = Len(clipboard.connections)

\* a capture that kept one connection and cleared the output slot of another
C20_Witness ==
  /\ Copied
  /\ clipboard.connections # <<>>
  /\ \E i \in 1..Len(clipboard.blocks) :
       \E p \in OutputPorts :
         /\ IsSome(plot.blocks[clipboard.blocks[i].id].outputs[p])
         /\ clipboard.blocks[i].outputs[p] = None

\* ------------------------------------------------------ claims on Project
\* the last call was a collect_dependencies from an empty accumulator
Collected == ret.op = "collect_dependencies"

\* the non-builtin modules of the table that blocks of n's plot instance
Instanced(table, n) ==
  IF n \in DOMAIN table /\ IsSome(table[n].plot)
  THEN {m \in DOMAIN table :
          /\ ~table[m].builtin
          /\ \E b \in DOMAIN Unwrap(table[n].plot).blocks :
               Unwrap(table[n].plot).blocks[b].module_id = m}
  ELSE {}

\* the least set holding S and closed under Instanced
RECURSIVE Closure(_, _)
Closure(table, S) ==
  LET T == S \cup UNION {Instanced(table, n) : n \in S}
  IN IF T = S THEN S ELSE Closure(table, T)

\* the modules n instances directly or transitively
TransitiveDeps(table, n) == Closure(table, Instanced(table, n))

\* the names collect_dependencies inserted
Inserted == {deps.acc[k].name : k \in 1..Len(deps.acc)}

\* C12: from an empty accumulator collect_dependencies(A) returns exactly
\* the non-builtin modules of the table instanced directly or transitively by
\* blocks of A's plot, each inserted once however many blocks instance it, and
\* never a builtin module.
C12_DependencyCollection ==
  Collected =>
    /\ Inserted = TransitiveDeps(modules, deps.start)
    /\ Len(deps.acc) = Cardinality(Inserted)
    /\ \A k \in 1..Len(deps.acc) :
         /\ ~deps.acc[k].builtin
         /\ deps.acc[k] = modules[deps.acc[k].name]

\* A with two blocks instancing B, B instancing C and a builtin: {B, C}
C12_Witness ==
  /\ Collected
  /\ deps.start = "A"
  /\ Inserted = {"B", "C"}
  /\ Cardinality(DOMAIN Unwrap(modules["A"].plot).blocks) = 2
  /\ \E b \in DOMAIN Unwrap(modules["B"].plot).blocks :
       Unwrap(modules["B"].plot).blocks[b].module_id = "And"

\* C13: a module that instances itself, directly or transitively, makes
\* collect_dependencies report a malformed project, and the starting module
\* is never among the dependencies returned.
C13_CycleIsReported ==
  Collected =>
    /\ deps.start \in TransitiveDeps(modules, deps.start) => ret.result # "Ok"
    /\ deps.start \notin Inserted

\* C14: the module table holds every builtin module, in every state the
\* Project reaches by load_from, add_module, add_existing_module and
\* remove_module with any module names.
C14_BuiltinsPresent ==
  \A n \in BUILTINS : n \in DOMAIN modules /\ modules[n] = BuiltinModule(n)

\* a module as update_all_blocks leaves it
Normalised(m) ==
  IF IsSome(m.plot)
  THEN Module(m.name, m.builtin,
              Some([blocks |-> Unwrap(m.plot).blocks, updated |-> TRUE]), m.io_blocks)
  ELSE m

\* C15: write_to writes the non-builtin modules, the main plot and tps and
\* no builtin module; load_from of that document yields its modules, main
\* plot and tps, except that every builtin name holds the current builtin
\* module, and every module plot and the main plot have been normalised.
C15_RoundTrip ==
  [][/\ (ret'.op = "write_to" /\ calls' = calls + 1) =>
          LET doc == Unwrap(file')
          IN /\ \A n \in DOMAIN doc.modules : ~doc.modules[n].builtin
             /\ DOMAIN doc.modules = {n \in DOMAIN modules : ~modules[n].builtin}
             /\ \A n \in DOMAIN doc.modules : doc.modules[n] = modules[n]
             /\ doc.main_plot = main_plot
             /\ doc.tps = tps
     /\ (ret'.op = "load_from" /\ calls' = calls + 1) =>
          LET doc == Unwrap(file)
          IN /\ DOMAIN modules' = DOMAIN doc.modules \cup BUILTINS
             /\ \A n \in BUILTINS : modules'[n] = BuiltinModule(n)
             /\ \A n \in DOMAIN doc.modules \ BUILTINS :
                  modules'[n] = Normalised(doc.modules[n])
             /\ main_plot' = [blocks |-> doc.main_plot.blocks, updated |-> TRUE]
             /\ tps' = doc.tps]_allvars

\* a load of a document that holds a composite module and a user module
\* under a builtin's name, which the load replaced by the builtin
C15_Witness ==
  /\ ret.op = "load_from"
  /\ IsSome(file)
  /\ "And" \in DOMAIN Unwrap(file).modules
  /\ \E n \in DOMAIN Unwrap(file).modules : IsSome(Unwrap(file).modules[n].plot)
  /\ C14_BuiltinsPresent

\* ------------------------------------------------- claims on Application
\* stop_simulation has returned in shutdown
AfterStop == main.pc \in {"stopped", "saving", "exited"}

C18_TickAtomicity ==
  /\ \A c \in 1..Len(contexts) :
       /\ contexts[c].pc = "tick" => lock = BySim(c) /\ data.a = data.b
       /\ contexts[c].pc # "tick" => lock # BySim(c)
  /\ main.pc \in {"open_locked", "open_written", "edit_locked", "edit_unhighlighted", "saving"}
       => lock = ByMain
  /\ data.a # data.b => lock = ByMain

\* a context waiting for the lock while open has written part of the data
C18_Witness ==
  /\ main.pc = "open_written"
  /\ data.a # data.b
  /\ \E c \in 1..Len(contexts) : contexts[c].pc = "lock"

\* C19: every context that has not ended belongs to the simulator in the
\* cell or is being joined by stop_simulation.
C19_AtMostOneRunning ==
  \A c \in 1..Len(contexts) :
    contexts[c].pc # "done" =>
      \/ simulator = Some(c)
      \/ main.pc = "joining" /\ main.target = c

\* ------------------------------------ claims on the walk of dependencies
\* the outermost collect_dependencies has returned
Returned == calls = 1 /\ walk = <<>>

\* the modules of the table that are not builtin
UserModules == {n \in DOMAIN modules : ~modules[n].builtin}

\* the names in the accumulator collect_dependencies computes from given
Computed(table, mod_name, given) ==
  LET acc == collect_dependencies(table, mod_name, given)
  IN {acc[k].name : k \in 1..Len(acc)}

\* C21: collect_dependencies terminates for every module table and every
\* starting module, cyclic tables and plots that reference a missing module
\* included: every call returns, its recursion is never deeper than the
\* number of non-builtin modules plus one, whatever the order in which the
\* blocks of a plot are visited, and no module name is inserted into the
\* accumulator more than once, nor one the caller's accumulator held already.
C21_CollectTerminates ==
  /\ [](Len(deps.acc) = Cardinality(Inserted))
  /\ [](Len(walk) <= Cardinality(UserModules) + 1)
  /\ [](Inserted \subseteq UserModules)
  /\ [](Returned => Inserted = Computed(modules, deps.start, deps.given))
  /\ ((calls = 1) ~> Returned)

\* a returned walk from A through the cycle A, B, C, where B instances a
\* builtin and C instances a module missing from the table
C21_Witness ==
  /\ Returned
  /\ deps.given = <<>>
  /\ deps.start = "A"
  /\ Inserted = {"A", "B", "C"}
  /\ "D" \notin DOMAIN modules
  /\ \E b \in DOMAIN Unwrap(modules["C"].plot).blocks :
       Unwrap(modules["C"].plot).blocks[b].module_id = "D"

\* a returned walk from A on an accumulator that held B: B is neither
\* inserted again nor walked, so the cycle through B and C adds nothing
C21_GivenWitness ==
  /\ Returned
  /\ deps.start = "A"
  /\ Len(deps.given) = 1
  /\ deps.given[1].name = "B"
  /\ deps.acc = deps.given
  /\ "B" \in Instanced(modules, "A")

\* ------------------------------------------------- claims on add_module
\* the blocks of a module's plot that are marked unique
UniqueBlocks(module) ==
  {b \in DOMAIN Unwrap(module.plot).blocks : Unwrap(module.plot).blocks[b].unique}

\* io_blocks names two distinct unique blocks of the module's own plot, an
\* instance of the Input and one of the Output module
IoBlocksSet(module) ==
  /\ has_io_blocks(module)
  /\ LET io == Unwrap(module.io_blocks)
         blocks == Unwrap(module.plot).blocks
     IN /\ io[1] # io[2]
        /\ {io[1], io[2]} \subseteq DOMAIN blocks
        /\ blocks[io[1]].unique /\ blocks[io[2]].unique
        /\ blocks[io[1]].module_id = INPUT_MODULE_NAME
        /\ blocks[io[2]].module_id = OUTPUT_MODULE_NAME

\* the modules add_module is called with: composed ones and stored ones
Addable == Candidates \cup {modules[n] : n \in DOMAIN modules}

\* C22: an add_module that returns stores the module under its name; a
\* composite module without io_blocks is stored with io_blocks naming two
\* distinct blocks of its own plot, both unique, added to the blocks it had;
\* a module that has io_blocks, and a module without a plot, is stored as it
\* is; so adding the stored module again changes neither the project nor the
\* allocator, and no stored module ever has more than two unique blocks.
C22_AddModuleIoBlocks ==
  /\ \A module \in Addable :
       LET r == add_module(TheProject, module, nextId)
           stored == r.project.modules[module.name]
           again == add_module(r.project, stored, r.next)
       IN r.result = "Ok" =>
            /\ DOMAIN r.project.modules = DOMAIN modules \cup {module.name}
            /\ \A n \in DOMAIN modules \ {module.name} : r.project.modules[n] = modules[n]
            /\ IsSome(module.plot) /\ ~has_io_blocks(module) =>
                 /\ IoBlocksSet(stored)
                 /\ DOMAIN Unwrap(stored.plot).blocks =
                      DOMAIN Unwrap(module.plot).blocks \cup
                        {Unwrap(stored.io_blocks)[1], Unwrap(stored.io_blocks)[2]}
                 /\ \A b \in DOMAIN Unwrap(module.plot).blocks :
                      Unwrap(stored.plot).blocks[b] = Unwrap(module.plot).blocks[b]
                 /\ r.next = nextId + 2
            /\ ~IsSome(module.plot) \/ has_io_blocks(module) =>
                 /\ stored = module
                 /\ r.next = nextId
            /\ again.result = "Ok"
            /\ again.project = r.project
            /\ again.next = r.next
  /\ \A n \in DOMAIN modules :
       /\ has_io_blocks(modules[n]) => IoBlocksSet(modules[n])
       /\ IsSome(modules[n].plot) =>
            /\ Cardinality(UniqueBlocks(modules[n])) <= 2
            /\ UniqueBlocks(modules[n]) # {} => has_io_blocks(modules[n])

\* add_module has just stored a composite module whose plot holds the blocks
\* it was composed of and the two blocks generated for it
C22_Witness ==
  /\ ret.op = "add_module"
  /\ ret.result = "Ok"
  /\ nextId = 8
  /\ \E n \in DOMAIN modules :
       /\ IsSome(modules[n].plot)
       /\ IoBlocksSet(modules[n])
       /\ Cardinality(DOMAIN Unwrap(modules[n].plot).blocks) = 4
====
